---------------------------- MODULE Spec2Model ----------------------------
(***************************************************************************)
(* Portfolio audit: comparator/portfolio_audit.py (run_audit),             *)
(* engine/monte_carlo.py (run_monte_carlo), engine/metrics.py              *)
(* (compute_annual_metrics).                                               *)
(*                                                                         *)
(* Numbers.  A float is a pair <<n, d>> with d >= 0 in lowest terms: the   *)
(* exact rational n/d when d > 0, and the IEEE specials when d = 0:        *)
(* <<1,0>> is +inf, <<-1,0>> is -inf, <<0,0>> is NaN.  Rounding error and  *)
(* the sign of zero are not modelled.  A square root is kept symbolic: the *)
(* value of np.sqrt(x) is the record [rad |-> x], and a quotient by a root *)
(* is [sgn |-> s, sq |-> q], standing for s * sqrt(q).  Returns are in     *)
(* percent (an integer 1 is a daily return of 0.01, a risk-free rate 2 is  *)
(* 0.02); the Sharpe ratio does not depend on the unit.                    *)
(***************************************************************************)
EXTENDS Integers, Sequences, FiniteSets

---------------------------------------------------------------------------
(* float arithmetic as numpy and pandas do it on float64 *)

Abs(x) == IF x < 0 THEN -x ELSE x

Sgn(x) == IF x < 0 THEN -1 ELSE IF x > 0 THEN 1 ELSE 0

RECURSIVE Gcd(_, _)
Gcd(a, b) == IF b = 0 THEN a ELSE Gcd(b, a % b)

Norm(n, d) ==
    IF d = 0 THEN <<Sgn(n), 0>>
    ELSE LET g == Gcd(Abs(n), Abs(d))
         IN  <<(Sgn(d) * n) \div g, Abs(d) \div g>>

FNum(i) == <<i, 1>>

NaN == <<0, 0>>

PosInf == <<1, 0>>

NegInf == <<-1, 0>>

IsNaN(x) == x = NaN

IsFinite(x) == x[2] # 0

FNeg(x) == <<-x[1], x[2]>>

FAdd(x, y) ==
    IF IsNaN(x) \/ IsNaN(y) THEN NaN
    ELSE IF ~IsFinite(x) /\ ~IsFinite(y) THEN (IF x = y THEN x ELSE NaN)
    ELSE IF ~IsFinite(x) THEN x
    ELSE IF ~IsFinite(y) THEN y
    ELSE Norm(x[1] * y[2] + y[1] * x[2], x[2] * y[2])

FSub(x, y) == FAdd(x, FNeg(y))

FMul(x, y) == Norm(x[1] * y[1], x[2] * y[2])

\* 1/x: 1/0 is +inf, 1/inf is 0, 1/NaN is NaN
FInv(x) ==
    IF IsNaN(x) THEN NaN
    ELSE IF x[1] = 0 THEN PosInf
    ELSE IF x[2] = 0 THEN FNum(0)
    ELSE <<Sgn(x[1]) * x[2], Abs(x[1])>>

\* x / y with a warning, never an exception: x/0 is +-inf, 0/0 is NaN
FDiv(x, y) == FMul(x, FInv(y))

\* a/b < c/d for naturals a, c and positive b, d, without a product
RECURSIVE RatLess(_, _, _, _)
RatLess(a, b, c, d) ==
    LET q1 == a \div b
        q2 == c \div d
        r1 == a % b
        r2 == c % d
    IN  IF q1 # q2 THEN q1 < q2
        ELSE IF r2 = 0 THEN FALSE
        ELSE IF r1 = 0 THEN TRUE
        ELSE RatLess(d, r2, b, r1)

\* x < y on floats: FALSE as soon as one side is NaN
FLess(x, y) ==
    IF IsNaN(x) \/ IsNaN(y) THEN FALSE
    ELSE IF x = y THEN FALSE
    ELSE IF x = NegInf \/ y = PosInf THEN TRUE
    ELSE IF x = PosInf \/ y = NegInf THEN FALSE
    ELSE IF Sgn(x[1]) # Sgn(y[1]) THEN Sgn(x[1]) < Sgn(y[1])
    ELSE IF x[1] > 0 THEN RatLess(x[1], x[2], y[1], y[2])
    ELSE RatLess(-y[1], y[2], -x[1], x[2])

FLeq(x, y) == ~IsNaN(x) /\ ~IsNaN(y) /\ ~FLess(y, x)

\* np.sqrt(x): NaN for a negative x
NpSqrt(x) ==
    IF IsNaN(x) \/ x[1] < 0 THEN [rad |-> NaN] ELSE [rad |-> x]

RootIsNaN(v) == IsNaN(v.rad)

RootLess(u, v) == FLess(u.rad, v.rad)

\* a / v for a float a and a root v
DivByRoot(a, v) ==
    LET q == FDiv(FMul(a, a), v.rad)
    IN  IF IsNaN(a) \/ IsNaN(q) THEN [sgn |-> 0, sq |-> NaN]
        ELSE IF q = FNum(0) THEN [sgn |-> 0, sq |-> q]
        ELSE [sgn |-> Sgn(a[1]), sq |-> q]

QuotIsNaN(s) == IsNaN(s.sq)

QuotIsFinite(s) == IsFinite(s.sq)

QuotLess(s, t) ==
    IF QuotIsNaN(s) \/ QuotIsNaN(t) THEN FALSE
    ELSE IF s.sgn # t.sgn THEN s.sgn < t.sgn
    ELSE IF s.sgn > 0 THEN FLess(s.sq, t.sq)
    ELSE IF s.sgn < 0 THEN FLess(t.sq, s.sq)
    ELSE FALSE

QuotLeq(s, t) == ~QuotIsNaN(s) /\ ~QuotIsNaN(t) /\ ~QuotLess(t, s)

---------------------------------------------------------------------------
(* bounds of the model and the inputs it draws *)

\* the largest N (num_simulations, num_portfolios) a call is given
MaxN == 2

\* np.random.random yields the magnitudes 0/(MaxDraw+1) .. MaxDraw/(MaxDraw+1)
MaxDraw == 1

TRADING_DAYS == 252

Row(t, w) == [Ticker |-> t, Weight |-> w]

\* allocation tables (user_df): rows of Ticker and raw Weight
UserTables ==
    { << >>,
      <<Row("A", 1), Row("B", 1)>>,
      <<Row("A", 5), Row("B", 3), Row("C", 2)>>,
      <<Row("B", 1), Row("C", 1)>>,
      <<Row("B", 1), Row("C", 0)>>,
      <<Row("B", 0), Row("C", 0), Row("A", 1)>>,
      <<Row("B", 2), Row("B", 1)>> }

\* return tables (historical_data): column -> daily returns, in percent
HistTables ==
    { [B |-> <<1, 0, 2>>, C |-> <<0, 2, 4>>, D |-> <<1, 1, -2>>],
      [B |-> <<0, 0, 0>>, C |-> <<1, -1, 3>>, D |-> <<0, 1, 0>>] }

RiskPreferences == {"High", "Medium", "Low"}

\* risk_free_rate, in percent
RiskFreeRates == {FNum(0), FNum(2)}

\* the universes a direct caller of run_monte_carlo estimates over
DirectUniverses == { <<"B", "C">>, <<"C", "D">> }

---------------------------------------------------------------------------
(* sequences of floats *)

RECURSIVE SumInt(_)
SumInt(s) == IF s = << >> THEN 0 ELSE Head(s) + SumInt(Tail(s))

RECURSIVE NpSum(_)
NpSum(s) == IF s = << >> THEN FNum(0) ELSE FAdd(Head(s), NpSum(Tail(s)))

\* np.dot of two vectors
NpDot(a, b) == NpSum([i \in 1..Len(a) |-> FMul(a[i], b[i])])

\* np.dot of a matrix (a sequence of rows) and a vector
NpMatVec(m, v) == [i \in 1..Len(m) |-> NpDot(m[i], v)]

RECURSIVE SelectSeqIn(_, _)
SelectSeqIn(s, keep) ==
    IF s = << >> THEN << >>
    ELSE IF Head(s) \in keep THEN <<Head(s)>> \o SelectSeqIn(Tail(s), keep)
    ELSE SelectSeqIn(Tail(s), keep)

Range(s) == {s[i] : i \in 1..Len(s)}

---------------------------------------------------------------------------
(* engine/metrics.py *)

ColumnMean(col) == FDiv(FNum(SumInt(col)), FNum(Len(col)))

\* sample covariance of two columns (ddof = 1)
ColumnCov(a, b) ==
    LET ma == ColumnMean(a)
        mb == ColumnMean(b)
        dev == [t \in 1..Len(a) |->
                   FMul(FSub(FNum(a[t]), ma), FSub(FNum(b[t]), mb))]
    IN  FDiv(NpSum(dev), FNum(Len(a) - 1))

\* daily_returns: the selected columns, in order
compute_annual_metrics(daily_returns) ==
    LET n == Len(daily_returns)
    IN  [annual_returns |->
            [i \in 1..n |-> FMul(ColumnMean(daily_returns[i]), FNum(TRADING_DAYS))],
         annual_cov |->
            [i \in 1..n |-> [j \in 1..n |->
                FMul(ColumnCov(daily_returns[i], daily_returns[j]),
                     FNum(TRADING_DAYS))]]]

---------------------------------------------------------------------------
(* the three metrics of one weight vector: monte_carlo.py 17-22 and
   portfolio_audit.py 28-30 *)

PortfolioReturn(weights, expected) == NpDot(weights, expected)

PortfolioVolatility(weights, cov) ==
    NpSqrt(NpDot(weights, NpMatVec(cov, weights)))

SharpeRatio(ret, vol, rf) == DivByRoot(FSub(ret, rf), vol)

---------------------------------------------------------------------------
(* state *)

VARIABLES
    pc,                 \* "idle", "sim" (inside run_monte_carlo's loop), "done"
    caller,             \* who called run_monte_carlo: "audit" or "direct"
    run,                \* how many calls of run_monte_carlo this process made
    \* run_audit: arguments
    user_df, historical_data, risk_preference, risk_free_rate, num_simulations,
    \* run_audit: locals
    valid_tickers, mean_ret, cov_mat, user_weights, user_ret, user_vol,
    user_sharpe,
    best_idx,
    calls,              \* the engine functions run_audit has invoked, in order
    audit_out,          \* what run_audit returned, or that it raised
    \* run_monte_carlo: arguments, locals, return value
    expected_returns, cov_matrix, num_portfolios, mc_risk_free_rate,
    iter, results, mc_out,
    \* numpy's global generator: seeded (its stream is fixed) or not, and
    \* the magnitudes it has produced since it was last seeded
    rng, drawn,
    first_run           \* the previous direct run: its population

auditArgs == <<user_df, historical_data, risk_preference, risk_free_rate,
               num_simulations>>

auditLocals == <<valid_tickers, mean_ret, cov_mat, user_weights, user_ret,
                 user_vol, user_sharpe, best_idx, calls>>

mcFrame == <<expected_returns, cov_matrix, num_portfolios, mc_risk_free_rate,
             iter, results>>

vars == <<pc, caller, run, auditArgs, auditLocals, audit_out, mcFrame, mc_out,
          rng, drawn, first_run>>

Unset == << >>

NoOutcome == [kind |-> "none", result |-> << >>, err |-> << >>]

\* return x, y of run_audit; None is the empty sequence
Returned(result, err) == [kind |-> "returned", result |-> result, err |-> err]

\* an exception left run_audit
Raised == [kind |-> "raised", result |-> << >>, err |-> << >>]

NotEnoughTickers ==
    "Not enough valid tickers found in history database. Need at least 2 matching stocks."

Init ==
    /\ pc = "idle"
    /\ caller = "none"
    /\ run = 0
    /\ user_df = Unset /\ historical_data = Unset /\ risk_preference = Unset
    /\ risk_free_rate = Unset /\ num_simulations = 0
    /\ valid_tickers = Unset /\ mean_ret = Unset /\ cov_mat = Unset
    /\ user_weights = Unset /\ user_ret = Unset /\ user_vol = Unset
    /\ user_sharpe = Unset
    /\ best_idx = 0
    /\ calls = << >>
    /\ audit_out = NoOutcome
    /\ expected_returns = Unset /\ cov_matrix = Unset /\ num_portfolios = 0
    /\ mc_risk_free_rate = Unset /\ iter = 0
    /\ results = Unset
    /\ mc_out = Unset
    /\ rng = [seeded |-> FALSE, stream |-> << >>]
    /\ drawn = << >>
    /\ first_run = Unset

---------------------------------------------------------------------------
(* comparator/portfolio_audit.py: run_audit, lines 9-33 *)

Tickers(df) == [i \in 1..Len(df) |-> df[i].Ticker]

\* [t for t in user_tickers if t in historical_data.columns]
ValidTickers(df, hist) == SelectSeqIn(Tickers(df), DOMAIN hist)

\* user_df[user_df['Ticker'].isin(valid_tickers)]
ValidUserDf(df, valid) ==
    LET RECURSIVE Keep(_)
        Keep(s) == IF s = << >> THEN << >>
                   ELSE IF Head(s).Ticker \in Range(valid)
                        THEN <<Head(s)>> \o Keep(Tail(s))
                        ELSE Keep(Tail(s))
    IN  Keep(df)

\* Weight / Weight.sum(): 0/0 is NaN
NormalizedWeights(valid_df) ==
    LET raw == [i \in 1..Len(valid_df) |-> FNum(valid_df[i].Weight)]
        total == NpSum(raw)
    IN  [i \in 1..Len(valid_df) |-> FDiv(raw[i], total)]

FillNa(v) == IF IsNaN(v) THEN FNum(0) ELSE v

\* set_index('Ticker')['Weight'].reindex(valid_tickers).fillna(0).values:
\* the rows kept are those of valid_tickers in the same order, so the index
\* equals the target and reindex leaves it as it is, repeated labels or not
UserWeights(df, valid) ==
    LET w == NormalizedWeights(ValidUserDf(df, valid))
    IN  [i \in 1..Len(valid) |-> FillNa(w[i])]

\* a results dict made once and kept between calls, as a default argument
\* or a module-level dict would be
StaleResults ==
    IF results = Unset
    THEN [returns |-> << >>, volatility |-> << >>, sharpe |-> << >>, weights |-> << >>]
    ELSE results

\* results = {"returns": [], "volatility": [], "sharpe": [], "weights": []}
EmptyResults ==
    [returns |-> << >>, volatility |-> << >>, sharpe |-> << >>, weights |-> << >>]

RunAudit(df, hist, pref, rf, n) ==
    /\ pc = "idle"
    /\ run = 0
    /\ user_df' = df
    /\ historical_data' = hist
    /\ risk_preference' = pref
    /\ risk_free_rate' = rf
    /\ num_simulations' = n
    /\ LET valid == ValidTickers(df, hist)
       IN  /\ valid_tickers' = valid
           /\ IF Len(valid) < 2
              THEN /\ audit_out' = Returned(<< >>, <<NotEnoughTickers>>)
                   /\ pc' = "done"
                   /\ UNCHANGED <<mean_ret, cov_mat, user_weights, user_ret,
                                  user_vol, user_sharpe, calls, caller, run,
                                  mcFrame>>
              ELSE LET m == compute_annual_metrics([i \in 1..Len(valid) |-> hist[valid[i]]])
                       w == UserWeights(df, valid)
                       r == PortfolioReturn(w, m.annual_returns)
                       v == PortfolioVolatility(w, m.annual_cov)
                   IN  /\ mean_ret' = m.annual_returns
                       /\ cov_mat' = m.annual_cov
                       /\ user_weights' = w
                       /\ user_ret' = r
                       /\ user_vol' = v
                       /\ user_sharpe' = SharpeRatio(r, v, rf)
                       /\ calls' = <<"compute_annual_metrics", "run_monte_carlo">>
                       /\ caller' = "audit"
                       /\ run' = run + 1
                       /\ expected_returns' = m.annual_returns
                       /\ cov_matrix' = m.annual_cov
                       /\ num_portfolios' = n
                       /\ mc_risk_free_rate' = rf
                       /\ iter' = 0
                       /\ results' = EmptyResults
                       /\ audit_out' = audit_out
                       /\ pc' = "sim"
    /\ UNCHANGED <<best_idx, mc_out, rng, drawn, first_run>>

---------------------------------------------------------------------------
(* engine/monte_carlo.py: run_monte_carlo *)

\* the magnitudes np.random.random(k) may return
Magnitudes(k) == [1..k -> 0..MaxDraw]

Magnitude(u) == Norm(u, MaxDraw + 1)

\* weights = np.random.random(num_assets); weights /= np.sum(weights)
SimplexWeights(u) ==
    LET w == [i \in 1..Len(u) |-> Magnitude(u[i])]
        total == NpSum(w)
    IN  [i \in 1..Len(u) |-> FDiv(w[i], total)]

\* the weights put at the front of their list instead of the end
AppendSampleSkewed(res, ret, vol, sharpe, weights) ==
    [returns |-> Append(res.returns, ret),
     volatility |-> Append(res.volatility, vol),
     sharpe |-> Append(res.sharpe, sharpe),
     weights |-> <<weights>> \o res.weights]

\* the four appends of one iteration, lines 24-27
AppendSample(res, ret, vol, sharpe, weights) ==
    [returns |-> Append(res.returns, ret),
     volatility |-> Append(res.volatility, vol),
     sharpe |-> Append(res.sharpe, sharpe),
     weights |-> Append(res.weights, weights)]

\* one iteration of the loop, lines 13-27, on the magnitudes u
Sample(res, u, expected, cov, rf) ==
    LET weights == SimplexWeights(u)
        portfolio_return == PortfolioReturn(weights, expected)
        portfolio_volatility == PortfolioVolatility(weights, cov)
        sharpe_ratio == SharpeRatio(portfolio_return, portfolio_volatility, rf)
    IN  AppendSample(res, portfolio_return, portfolio_volatility, sharpe_ratio,
                     weights)

MonteCarloStep ==
    /\ pc = "sim"
    /\ iter < num_portfolios
    /\ LET k == Len(expected_returns)
       IN  \E u \in Magnitudes(k) :
               /\ rng.seeded => /\ Len(rng.stream) >= k
                                /\ u = SubSeq(rng.stream, 1, k)
               /\ rng' = IF rng.seeded
                         THEN [rng EXCEPT !.stream = SubSeq(rng.stream, k + 1, Len(rng.stream))]
                         ELSE rng
               /\ drawn' = drawn \o u
               /\ results' = Sample(results, u, expected_returns, cov_matrix,
                                    mc_risk_free_rate)
    /\ iter' = iter + 1
    /\ UNCHANGED <<pc, caller, run, auditArgs, auditLocals, audit_out,
                   expected_returns, cov_matrix, num_portfolios,
                   mc_risk_free_rate, mc_out, first_run>>

---------------------------------------------------------------------------
(* comparator/portfolio_audit.py: run_audit, lines 35-60 *)

\* np.argmax: the first NaN if there is one, else the first maximum
ArgMaxSharpe(s) ==
    LET nans == {i \in 1..Len(s) : QuotIsNaN(s[i])}
        tops == {i \in 1..Len(s) : \A j \in 1..Len(s) : ~QuotLess(s[i], s[j])}
        pick == IF nans # {} THEN nans ELSE tops
    IN  CHOOSE i \in pick : \A j \in pick : i <= j

\* np.argmin: the first NaN if there is one, else the first minimum
ArgMinVolatility(v) ==
    LET nans == {i \in 1..Len(v) : RootIsNaN(v[i])}
        lows == {i \in 1..Len(v) : \A j \in 1..Len(v) : ~RootLess(v[j], v[i])}
        pick == IF nans # {} THEN nans ELSE lows
    IN  CHOOSE i \in pick : \A j \in pick : i <= j

BestIdx(pref, sim) ==
    IF pref = "High" THEN ArgMaxSharpe(sim.sharpe)
    ELSE IF pref = "Low" THEN ArgMinVolatility(sim.volatility)
    ELSE ArgMaxSharpe(sim.sharpe)

OptStats(sim, idx) ==
    [return |-> sim.returns[idx],
     volatility |-> sim.volatility[idx],
     sharpe |-> sim.sharpe[idx],
     weights |-> sim.weights[idx]]

AuditResult(sim, idx) ==
    [user |-> [return |-> user_ret, volatility |-> user_vol,
               sharpe |-> user_sharpe, weights |-> user_weights],
     optimal |-> OptStats(sim, idx),
     tickers |-> valid_tickers,
     num_simulations |-> Len(sim.returns),
     simulation_data |-> sim]

\* run_monte_carlo returns to run_audit, which selects and returns; argmax
\* and argmin of an empty sequence raise ValueError
AuditSelect ==
    /\ pc = "sim"
    /\ caller = "audit"
    /\ iter = num_portfolios
    /\ mc_out' = results
    /\ IF Len(results.sharpe) = 0
       THEN /\ audit_out' = Raised
            /\ best_idx' = best_idx
       ELSE /\ best_idx' = BestIdx(risk_preference, results)
            /\ audit_out' = Returned(<<AuditResult(results, best_idx')>>, << >>)
    /\ pc' = "done"
    /\ UNCHANGED <<caller, run, auditArgs, valid_tickers, mean_ret, cov_mat,
                   user_weights, user_ret, user_vol, user_sharpe, calls,
                   mcFrame, rng, drawn, first_run>>

---------------------------------------------------------------------------
(* run_monte_carlo called on its own, twice from the same generator state *)

\* run_monte_carlo(expected_returns, cov_matrix, num_portfolios, risk_free_rate);
\* the second call of a process repeats the arguments of the first
CallMonteCarlo(expected, cov, n, rf) ==
    /\ pc = "idle"
    /\ run < 2
    /\ run = 1 => <<expected, cov, n, rf>> =
                      <<expected_returns, cov_matrix, num_portfolios, mc_risk_free_rate>>
    /\ caller' = "direct"
    /\ run' = run + 1
    /\ expected_returns' = expected
    /\ cov_matrix' = cov
    /\ num_portfolios' = n
    /\ mc_risk_free_rate' = rf
    /\ iter' = 0
    /\ results' = EmptyResults
    /\ pc' = "sim"
    /\ UNCHANGED <<auditArgs, auditLocals, audit_out, mc_out, rng, drawn, first_run>>

\* return results, line 29
MonteCarloReturn ==
    /\ pc = "sim"
    /\ caller = "direct"
    /\ iter = num_portfolios
    /\ mc_out' = results
    /\ pc' = "done"
    /\ UNCHANGED <<caller, run, auditArgs, auditLocals, audit_out, mcFrame, rng,
                   drawn, first_run>>

\* the caller keeps the first population and puts the generator back into
\* the state the first run started from (np.random.seed with the same seed):
\* it will produce the same magnitudes again
Reseed ==
    /\ pc = "done"
    /\ caller = "direct"
    /\ run = 1
    /\ first_run' = mc_out
    /\ rng' = [seeded |-> TRUE, stream |-> drawn]
    /\ drawn' = << >>
    /\ pc' = "idle"
    /\ UNCHANGED <<caller, run, auditArgs, auditLocals, audit_out, mcFrame, mc_out>>

DirectArgs ==
    { <<m.annual_returns, m.annual_cov>> :
        m \in { compute_annual_metrics([i \in 1..Len(u) |-> hist[u[i]]]) :
                   u \in DirectUniverses, hist \in HistTables } }

Next ==
    \/ \E df \in UserTables, hist \in HistTables, pref \in RiskPreferences,
          rf \in RiskFreeRates, n \in 0..MaxN : RunAudit(df, hist, pref, rf, n)
    \/ MonteCarloStep
    \/ AuditSelect

Spec == Init /\ [][Next]_vars

NextMC ==
    \/ \E a \in DirectArgs, n \in 0..MaxN, rf \in RiskFreeRates :
          CallMonteCarlo(a[1], a[2], n, rf)
    \/ MonteCarloStep
    \/ MonteCarloReturn
    \/ Reseed

SpecMC == Init /\ [][NextMC]_vars

---------------------------------------------------------------------------
(* what the claims speak of *)

AuditEnded == pc = "done" /\ caller # "direct"

HasResult == AuditEnded /\ audit_out.kind = "returned" /\ Len(audit_out.result) = 1

TheResult == audit_out.result[1]

\* the identifiers both in the supplied allocation and among the columns
CommonIdentifiers == Range(Tickers(user_df)) \cap DOMAIN historical_data

\* the rows of the supplied allocation whose identifier is in the universe
RowsInUniverse == ValidUserDf(user_df, SelectSeqIn(Tickers(user_df), CommonIdentifiers))

RawSumInUniverse == SumInt([i \in 1..Len(RowsInUniverse) |-> RowsInUniverse[i].Weight])

Population == TheResult.simulation_data

\* non-negative finite weights, one per universe member, that sum to 1
IsAllocation(w) ==
    /\ Len(w) = Len(TheResult.tickers)
    /\ \A i \in 1..Len(w) : IsFinite(w[i]) /\ w[i][1] >= 0
    /\ NpSum(w) = FNum(1)

\* index i holds the first maximum of the Sharpe ratios
FirstMaxSharpe(s, i) ==
    /\ \A j \in 1..Len(s) : QuotLeq(s[j], s[i])
    /\ \A j \in 1..(i - 1) : QuotLess(s[j], s[i])

\* index i holds the first minimum of the volatilities
FirstMinVolatility(v, i) ==
    /\ \A j \in 1..Len(v) : FLeq(v[i].rad, v[j].rad)
    /\ \A j \in 1..(i - 1) : RootLess(v[i], v[j])

\* a volatility that is a number and not negative, with a Sharpe ratio that
\* is finite, or, when the volatility is exactly 0, one of the infinities
GuardedMetrics(vol, sharpe) ==
    /\ ~RootIsNaN(vol)
    /\ vol.rad[1] >= 0
    /\ IF vol.rad = FNum(0) THEN ~QuotIsNaN(sharpe) ELSE QuotIsFinite(sharpe)

---------------------------------------------------------------------------
(* the claims *)

\* C1: run_audit ends by returning a pair with exactly one component
\* present, (result, no error) or (no result, error); it never ends in an
\* exception.
C1_ExactlyOneOutcome ==
    AuditEnded =>
        /\ audit_out.kind = "returned"
        /\ (Len(audit_out.result) = 1) # (Len(audit_out.err) = 1)

\* C2: with fewer than 2 identifiers common to the allocation and the return
\* table, run_audit returns no result and an error message, and neither the
\* metrics estimator nor the simulation has been invoked.
C2_FailsBeforeSimulation ==
    (pc # "idle" /\ caller # "direct" /\ Cardinality(CommonIdentifiers) < 2) =>
        /\ calls = << >>
        /\ audit_out = Returned(<< >>, <<NotEnoughTickers>>)

\* C3: the user's weights of a result have one entry per universe member, in
\* universe order, each the member's raw weight divided by the sum of the raw
\* weights inside the universe.
C3_ReconciledWeights ==
    HasResult =>
        /\ Len(TheResult.user.weights) = Len(TheResult.tickers)
        /\ Len(RowsInUniverse) = Len(TheResult.tickers)
        /\ \A i \in 1..Len(TheResult.tickers) :
              /\ RowsInUniverse[i].Ticker = TheResult.tickers[i]
              /\ RawSumInUniverse # 0
              /\ TheResult.user.weights[i] =
                     Norm(RowsInUniverse[i].Weight, RawSumInUniverse)

\* C4: the selected index is the smallest index whose Sharpe ratio is the
\* population's maximum (High, Medium), or whose volatility is the
\* population's minimum (Low).
C4_SelectionIsFirstBest ==
    HasResult =>
        IF risk_preference = "Low"
        THEN FirstMinVolatility(Population.volatility, best_idx)
        ELSE FirstMaxSharpe(Population.sharpe, best_idx)

\* C5: the tickers of a result are pairwise distinct, are exactly the
\* identifiers common to the allocation and the return table, and are at
\* least 2.
C5_UniverseIsASet ==
    HasResult =>
        /\ \A i, j \in 1..Len(TheResult.tickers) :
              TheResult.tickers[i] = TheResult.tickers[j] => i = j
        /\ Range(TheResult.tickers) = CommonIdentifiers
        /\ Cardinality(Range(TheResult.tickers)) >= 2

\* C6: every population entry and the user's metrics have a volatility >= 0
\* and a finite Sharpe ratio, but for a sentinel when the volatility is 0,
\* and the selected entry's Sharpe ratio is defined.
C6_ZeroVolatilityGuarded ==
    HasResult =>
        /\ \A i \in 1..Len(Population.sharpe) :
              GuardedMetrics(Population.volatility[i], Population.sharpe[i])
        /\ GuardedMetrics(TheResult.user.volatility, TheResult.user.sharpe)
        /\ ~QuotIsNaN(TheResult.optimal.sharpe)

\* C7: the user's weights, the optimal weights and the weights of every
\* population entry are non-negative, one per universe member, and sum to 1.
C7_AllocationsSumToOne ==
    HasResult =>
        /\ IsAllocation(TheResult.user.weights)
        /\ IsAllocation(TheResult.optimal.weights)
        /\ \A i \in 1..Len(Population.weights) : IsAllocation(Population.weights[i])

\* C8: two runs of run_monte_carlo with the same arguments, the second
\* started from the generator state the first started from, return the same
\* population, entry by entry, whatever the first run left behind.
C8_SameSeedSamePopulation ==
    (pc = "done" /\ caller = "direct" /\ run = 2) => mc_out = first_run

C8_Witness ==
    /\ pc = "done" /\ caller = "direct" /\ run = 2
    /\ Len(mc_out.weights) = 2
    /\ mc_out.weights[1] # mc_out.weights[2]
    /\ mc_out = first_run

\* C9: after every iteration the four arrays have the same length and
\* position i of each describes the same sample; on return each has length
\* N; the optimal return, volatility, Sharpe ratio and weights come from the
\* one selected index, and num_simulations is the requested N.
C9_IndexStability ==
    /\ pc # "idle" /\ results # Unset =>
          /\ Len(results.returns) = iter
          /\ Len(results.volatility) = iter
          /\ Len(results.sharpe) = iter
          /\ Len(results.weights) = iter
          /\ \A i \in 1..iter :
                /\ results.returns[i] =
                       PortfolioReturn(results.weights[i], expected_returns)
                /\ results.volatility[i] =
                       PortfolioVolatility(results.weights[i], cov_matrix)
                /\ results.sharpe[i] =
                       SharpeRatio(results.returns[i], results.volatility[i],
                                   mc_risk_free_rate)
    /\ pc = "done" /\ mc_out # Unset =>
          /\ Len(mc_out.returns) = num_portfolios
          /\ Len(mc_out.volatility) = num_portfolios
          /\ Len(mc_out.sharpe) = num_portfolios
          /\ Len(mc_out.weights) = num_portfolios
    /\ HasResult =>
          /\ best_idx \in 1..num_simulations
          /\ TheResult.optimal.return = Population.returns[best_idx]
          /\ TheResult.optimal.volatility = Population.volatility[best_idx]
          /\ TheResult.optimal.sharpe = Population.sharpe[best_idx]
          /\ TheResult.optimal.weights = Population.weights[best_idx]
          /\ TheResult.num_simulations = num_simulations

C9_Witness ==
    /\ HasResult
    /\ num_simulations = 2
    /\ best_idx = 2
    /\ Population.weights[1] # Population.weights[2]
    /\ Population.sharpe[1] # Population.sharpe[2]

\* C10: the optimal portfolio of a result is at least as good as the user's
\* on the chosen criterion: its Sharpe ratio is not lower (High, Medium), its
\* volatility is not higher (Low).
C10_OptimalNotWorseThanUser ==
    HasResult =>
        IF risk_preference = "Low"
        THEN FLeq(TheResult.optimal.volatility.rad, TheResult.user.volatility.rad)
        ELSE QuotLeq(TheResult.user.sharpe, TheResult.optimal.sharpe)

=============================================================================
